---- MODULE Spec2Model ----
(***************************************************************************)
(* Model of trie.FlatDbSubTrieLoader (trie/flatdb_sub_trie_loader.go):     *)
(* the cursor-merge iterator, the account/storage structural walkers, the  *)
(* finalisers and the LoadSubTries driver, over byte keys of the real      *)
(* widths (32-byte hashes, 8-byte incarnations).                           *)
(***************************************************************************)
EXTENDS Integers, Sequences, FiniteSets, TLC

\* ------------------------------------------------------------------------
\* Bounds of the model
\* ------------------------------------------------------------------------
\* Number of Reset+LoadSubTries rounds performed on one loader instance.
MaxLoads == 2

\* Number of operations performed on one PlainStateWriter.
MaxWrites == 2

\* ------------------------------------------------------------------------
\* Program constants
\* ------------------------------------------------------------------------
HashLength == 32
IncarnationLength == 8

\* ------------------------------------------------------------------------
\* Byte strings
\* ------------------------------------------------------------------------
Rep(b, n) == [i \in 1..n |-> b]

Min2(a, b) == IF a < b THEN a ELSE b

Take(s, n) == IF n >= Len(s) THEN s ELSE SubSeq(s, 1, n)

Drop(s, n) == IF n >= Len(s) THEN <<>> ELSE SubSeq(s, n + 1, Len(s))

\* bytes.Compare: -1, 0 or 1 in lexicographic order
Compare(a, b) ==
  LET n == Min2(Len(a), Len(b))
      d == {i \in 1..n : a[i] # b[i]}
  IN IF d = {}
       THEN (IF Len(a) < Len(b) THEN -1 ELSE IF Len(a) > Len(b) THEN 1 ELSE 0)
       ELSE LET i == CHOOSE j \in d : \A m \in d : j <= m
            IN IF a[i] < b[i] THEN -1 ELSE 1

\* bytes.HasPrefix
HasPrefix(s, p) == Len(p) <= Len(s) /\ \A i \in 1..Len(p) : s[i] = p[i]

\* copy(dst, src) into a fixed-size array: overwrites the first
\* min(len(dst), len(src)) bytes and keeps the rest of dst
CopyInto(dst, src) ==
  [i \in 1..Len(dst) |-> IF i <= Len(src) THEN src[i] ELSE dst[i]]

\* []byte++ as a big-endian integer; ok = FALSE on overflow
Increment(in) ==
  LET nz == {i \in 1..Len(in) : in[i] # 255}
  IN IF nz = {}
       THEN [ok |-> FALSE, out |-> Rep(0, Len(in))]
       ELSE LET p == CHOOSE j \in nz : \A m \in nz : m <= j
            IN [ok |-> TRUE,
                out |-> [i \in 1..Len(in) |->
                           IF i < p THEN in[i] ELSE IF i = p THEN in[i] + 1 ELSE 0]]

nextSubtree(in) ==
  LET r == Increment(in)
  IN [ok |-> r.ok, next |-> IF r.ok THEN r.out ELSE <<>>]

\* nextAccount(in, out): out is fstl.nextAccountKey, a [32]byte
nextAccount(in, out) ==
  LET r == Increment(CopyInto(out, in))
  IN [ok |-> r.ok, out |-> r.out]

\* keyIsBefore with the comparison of the two keys the wrong way round
keyIsBefore_Swapped(k1, k2) ==
  IF k1 = <<>> THEN [isIH |-> FALSE, minKey |-> k2]
  ELSE IF k2 = <<>> THEN [isIH |-> TRUE, minKey |-> k1]
  ELSE IF Compare(k2, k1) <= 0 THEN [isIH |-> TRUE, minKey |-> k1]
  ELSE [isIH |-> FALSE, minKey |-> k2]

\* keyIsBefore: bytes.Compare where nil (the empty key) is the last key
keyIsBefore(k1, k2) ==
  IF k1 = <<>> THEN [isIH |-> FALSE, minKey |-> k2]
  ELSE IF k2 = <<>> THEN [isIH |-> TRUE, minKey |-> k1]
  ELSE IF Compare(k1, k2) <= 0 THEN [isIH |-> TRUE, minKey |-> k1]
  ELSE [isIH |-> FALSE, minKey |-> k2]

\* keyToNibbles writing the low nibble of each byte first
keyToNibbles_LowFirst(k) ==
  [i \in 1..(2 * Len(k)) |->
     IF i % 2 = 1 THEN k[(i + 1) \div 2] % 16 ELSE k[i \div 2] \div 16]

\* keyToNibbles: two nibbles per byte, high nibble first
keyToNibbles(k) ==
  [i \in 1..(2 * Len(k)) |->
     IF i % 2 = 1 THEN k[(i + 1) \div 2] \div 16 ELSE k[i \div 2] % 16]

\* keyToNibblesWithoutInc: nibbles of k with the incarnation bytes elided
keyToNibblesWithoutInc(k) ==
  keyToNibbles(Take(k, HashLength)) \o
  (IF Len(k) > HashLength + IncarnationLength
     THEN keyToNibbles(Drop(k, HashLength + IncarnationLength))
     ELSE <<>>)

\* binary.BigEndian.PutUint64 of ^incarnation, for the incarnations in use
\* (all below 256, so only the last byte differs from 0xff)
InvertedIncarnation(inc) == Rep(255, IncarnationLength - 1) \o <<255 - inc>>

\* x & y on bytes
BitAnd(x, y) ==
  LET bit(z, i) == (z \div (2 ^ i)) % 2
      Sum[i \in 0..8] == IF i = 8 THEN 0
                         ELSE bit(x, i) * bit(y, i) * (2 ^ i) + Sum[i + 1]
  IN Sum[0]

\* ethdb.Bytesmask: number of bytes covered by fixedbits and the left-aligned
\* mask of the last of them
Bytesmask(fixedbits) ==
  LET shiftbits == fixedbits % 8
  IN [fixedbytes |-> (fixedbits + 7) \div 8,
      mask |-> IF shiftbits # 0 THEN (255 * (2 ^ (8 - shiftbits))) % 256 ELSE 255]

\* common.BytesToHash: crop from the left or left-pad to HashLength bytes
BytesToHash(b) ==
  IF Len(b) >= HashLength THEN Drop(b, Len(b) - HashLength)
  ELSE Rep(0, HashLength - Len(b)) \o b

\* ------------------------------------------------------------------------
\* Accounts (accounts.Account) and their storage encoding
\* ------------------------------------------------------------------------
ZeroAccount == [Nonce |-> 0, Balance |-> 0, Incarnation |-> 0, Code |-> 0]

\* EncodeForStorage, abstracted to the tuple of the fields the loader reads;
\* Code # 0 stands for a non-empty code hash
EncodeForStorage(a) == <<a.Nonce, a.Balance, a.Incarnation, a.Code>>

\* a buffer no account decodes from
BadEncoding == <<9>>

\* Account.DecodeForStorage: resets the account, accepts the empty buffer
DecodeForStorage(enc) ==
  IF Len(enc) = 0 THEN [err |-> FALSE, a |-> ZeroAccount]
  ELSE IF Len(enc) # 4 THEN [err |-> TRUE, a |-> ZeroAccount]
  ELSE [err |-> FALSE,
        a |-> [Nonce |-> enc[1], Balance |-> enc[2],
               Incarnation |-> enc[3], Code |-> enc[4]]]

IsEmptyCodeHash(a) == a.Code = 0

\* ------------------------------------------------------------------------
\* Keys, stores, ranges and retain deciders the loader is run on
\* ------------------------------------------------------------------------
A1 == Rep(17, HashLength)
A2 == Rep(18, HashLength)
A3 == Rep(49, HashLength)
AF == Rep(255, HashLength)
S1 == Rep(33, HashLength)
S2 == Rep(34, HashLength)

\* dbutils.GenerateCompositeStorageKey
CompositeKey(addrHash, inc, slot) == addrHash \o InvertedIncarnation(inc) \o slot

Acc(nonce, balance, inc, code) ==
  EncodeForStorage([Nonce |-> nonce, Balance |-> balance,
                    Incarnation |-> inc, Code |-> code])

\* a function given as a set of <<key, value>> pairs
Bucket(pairs) ==
  [k \in {p[1] : p \in pairs} |-> (CHOOSE p \in pairs : p[1] = k)[2]]

PlainState ==
  { <<A1, Acc(1, 0, 0, 0)>>,
    <<A2, Acc(0, 5, 2, 1)>>,
    <<CompositeKey(A2, 2, S1), <<1>>>>,
    <<CompositeKey(A2, 2, S2), <<2>>>>,
    <<CompositeKey(A2, 1, S1), <<7>>>>,
    <<A3, Acc(3, 0, 0, 0)>> }

\* Each store: the CurrentState bucket C, the IntermediateTrieHash bucket IH,
\* the IntermediateTrieWitnessLen bucket IWL, and whether the database
\* exposes a KV (ethdb.HasKV)
Stores ==
  << \* 1: empty store
     [C |-> Bucket({}), IH |-> Bucket({}), IWL |-> Bucket({}), hasKV |-> TRUE],
     \* 2: two plain accounts, one contract with current and stale storage
     [C |-> Bucket(PlainState), IH |-> Bucket({}), IWL |-> Bucket({}),
      hasKV |-> TRUE],
     \* 3: the same with cached hashes at an account and at two storage
     \* prefixes that follow each other
     [C |-> Bucket(PlainState),
      IH |-> Bucket({ <<(<<18>>), Rep(161, HashLength)>>,
                      <<A2 \o InvertedIncarnation(2) \o <<33>>,
                        Rep(162, HashLength)>>,
                      <<A2 \o InvertedIncarnation(2) \o <<34>>,
                        Rep(167, HashLength)>> }),
      IWL |-> Bucket({ <<(<<18>>), 11>>,
                       <<A2 \o InvertedIncarnation(2) \o <<33>>, 12>>,
                       <<A2 \o InvertedIncarnation(2) \o <<34>>, 17>> }),
      hasKV |-> TRUE],
     \* 4: an account with code followed by an undecodable account
     [C |-> Bucket({ <<A1, Acc(1, 0, 0, 1)>>, <<A3, BadEncoding>> }),
      IH |-> Bucket({}), IWL |-> Bucket({}), hasKV |-> TRUE],
     \* 5: storage left behind by deleted contracts, and one account
     [C |-> Bucket({ <<CompositeKey(A1, 1, S1), <<3>>>>,
                     <<CompositeKey(A2, 2, S1), <<4>>>>,
                     <<A3, Acc(1, 1, 1, 0)>> }),
      IH |-> Bucket({}), IWL |-> Bucket({}), hasKV |-> TRUE],
     \* 6: a cached hash at the last prefix of the key space
     \* (and storage keyed under the incarnation 0 of its first account)
     [C |-> Bucket({ <<A1, Acc(1, 0, 0, 0)>>,
                     <<CompositeKey(A1, 0, S1), <<5>>>>,
                     <<AF, Acc(2, 0, 0, 0)>> }),
      IH |-> Bucket({ <<(<<255>>), Rep(163, HashLength)>> }),
      IWL |-> Bucket({ <<(<<255>>), 13>> }),
      hasKV |-> TRUE],
     \* 7: cached hashes over an account, over the whole storage of a
     \* contract, and over the last account
     [C |-> Bucket(PlainState),
      IH |-> Bucket({ <<(<<17>>), Rep(164, HashLength)>>,
                      <<A2 \o InvertedIncarnation(2), Rep(165, HashLength)>>,
                      <<(<<49>>), Rep(166, HashLength)>> }),
      IWL |-> Bucket({ <<(<<17>>), 14>>,
                       <<A2 \o InvertedIncarnation(2), 15>>,
                       <<(<<49>>), 16>> }),
      hasKV |-> TRUE],
     \* 8: a database that is not backed by a KV
     [C |-> Bucket({}), IH |-> Bucket({}), IWL |-> Bucket({}), hasKV |-> FALSE] >>

StoreIds == 1..Len(Stores)

\* Range lists: dbPrefixes with their fixedbits
Range(prefix, bits) == [dbPrefix |-> prefix, fixedbits |-> bits]

RangeLists ==
  << <<>>,
     << Range(<<>>, 0) >>,
     << Range(<<17>>, 8), Range(<<18>>, 8) >>,
     << Range(<<17>>, 8), Range(<<32>>, 8), Range(<<49>>, 8) >>,
     << Range(<<18>>, 8), Range(<<32>>, 8) >>,
     << Range(<<32>>, 8), Range(<<49>>, 8) >>,
     << Range(<<16>>, 4), Range(<<48>>, 4) >>,
     << Range(A2 \o InvertedIncarnation(2), 320) >>,
     << Range(A2 \o InvertedIncarnation(2) \o <<33>>, 328),
        Range(A2 \o InvertedIncarnation(2) \o <<34>>, 328) >>,
     << Range(A2 \o InvertedIncarnation(2), 288) >>,
     << Range(<<17>>, 8), Range(<<18, 0>>, 16) >>,
     << Range(<<17>>, 8), Range(A2 \o InvertedIncarnation(2) \o <<48>>, 328) >> >>

RangeListIds == 1..Len(RangeLists)

\* Retain deciders, each given by the hex keys it was built from:
\* Retain(prefix) holds when prefix is a prefix of one of them
RetainDeciders ==
  << {},
     { keyToNibbles(A2) },
     { keyToNibbles(A2) \o keyToNibbles(S1) } >>

RetainIds == 1..Len(RetainDeciders)

Retain(rl, prefix) ==
  rl # 0 /\ \E h \in RetainDeciders[rl] : HasPrefix(h, prefix)

\* debug.IsTrackWitnessSizeEnabled
TrackWitnessSize == TRUE

\* ------------------------------------------------------------------------
\* bolt cursors: a cursor is its position (the key last returned, <<>> at
\* the end) and the number of times it was moved in the current iteration
\* ------------------------------------------------------------------------
MinKey(keys) == CHOOSE k \in keys : \A m \in keys : Compare(k, m) <= 0

SeekTo(bucket, cur, seek) ==
  LET ge == {k \in DOMAIN bucket : Compare(k, seek) >= 0}
  IN [pos |-> IF ge = {} THEN <<>> ELSE MinKey(ge), n |-> cur.n + 1]

CursorNext(bucket, cur) ==
  LET gt == {k \in DOMAIN bucket : Compare(k, cur.pos) > 0}
  IN [pos |-> IF gt = {} \/ cur.pos = <<>> THEN <<>> ELSE MinKey(gt),
      n |-> cur.n + 1]

\* the value under the cursor (nil at the end)
ValueAt(bucket, cur) == IF cur.pos = <<>> THEN <<>> ELSE bucket[cur.pos]

NewCursor == [pos |-> <<>>, n |-> 0]

\* ------------------------------------------------------------------------
\* The loader object
\* ------------------------------------------------------------------------
NoSubTries == [roots |-> <<>>, Hashes |-> <<>>]

\* NewFlatDbSubTrieLoader: every field at its zero value, a fresh HashBuilder.
\* The hash builder hb is the list of the calls made on it since its last
\* reset; boltDB and rl are indices into Stores and RetainDeciders, 0 for nil.
\* itemWrites counts the stream items written into the item buffer by the
\* invocation of iteration in progress (or the last one).
NewFlatDbSubTrieLoader ==
  [ rl |-> 0, curr |-> <<>>, succ |-> <<>>, value |-> <<>>, groups |-> <<>>,
    hb |-> <<>>, rangeIdx |-> 0, a |-> ZeroAccount,
    leafData |-> [Value |-> <<>>],
    accData |-> [Balance |-> 0, Nonce |-> 0, Incarnation |-> 0, FieldSet |-> {}],
    subTries |-> NoSubTries,
    wasIH |-> FALSE, wasIHStorage |-> FALSE,
    hashData |-> [Hash |-> Rep(0, HashLength), DataLen |-> 0],
    currStorage |-> <<>>, succStorage |-> <<>>, valueStorage |-> <<>>,
    witnessLenAccount |-> 0, witnessLenStorage |-> 0,
    accAddrHashWithInc |-> Rep(0, HashLength + IncarnationLength),
    dbPrefixes |-> <<>>, fixedbytes |-> <<>>, masks |-> <<>>, cutoffs |-> <<>>,
    boltDB |-> 0, nextAccountKey |-> Rep(0, HashLength),
    k |-> <<>>, v |-> <<>>, ihK |-> <<>>, ihV |-> <<>>,
    minKeyAsNibbles |-> <<>>,
    itemPresent |-> FALSE, itemWrites |-> 0, itemType |-> "NoItem",
    storageKeyPart1 |-> <<>>, storageKeyPart2 |-> <<>>, storageHash |-> <<>>,
    storageValue |-> <<>>, storageWitnessLen |-> 0,
    accountKey |-> <<>>, accountHash |-> <<>>, accountValue |-> ZeroAccount,
    streamCutoff |-> 0, accountWitnessLen |-> 0 ]

\* cutoffs[i] of Reset
CutoffOf(bits) ==
  IF bits >= 256 + 64 THEN bits \div 4 - 16 ELSE bits \div 4

\* Reset(db, rl, dbPrefixes, fixedbits): err is the returned error
Reset(f, db, rl, ranges) ==
  LET dbPrefixes == [i \in 1..Len(ranges) |-> ranges[i].dbPrefix]
      fixedbits  == [i \in 1..Len(ranges) |-> ranges[i].fixedbits]
      Ranged(f2) ==
        IF f2.boltDB = 0 THEN [f |-> f2, err |-> TRUE]
        ELSE [f |-> [f2 EXCEPT
                       !.fixedbytes = [i \in 1..Len(fixedbits) |->
                                         Bytesmask(fixedbits[i]).fixedbytes],
                       !.masks = [i \in 1..Len(fixedbits) |->
                                    Bytesmask(fixedbits[i]).mask],
                       !.cutoffs = [i \in 1..Len(fixedbits) |->
                                      CutoffOf(fixedbits[i])]],
              err |-> FALSE]
      Cleared(f1) ==
        IF Len(dbPrefixes) = 0 THEN [f |-> f1, err |-> FALSE]
        ELSE Ranged(IF Stores[db].hasKV THEN [f1 EXCEPT !.boltDB = db] ELSE f1)
  IN Cleared([f EXCEPT !.rangeIdx = 0, !.curr = <<>>, !.succ = <<>>,
                       !.value = <<>>, !.groups = <<>>, !.a = ZeroAccount,
                       !.hb = <<>>, !.wasIH = FALSE,
                       !.currStorage = <<>>, !.succStorage = <<>>,
                       !.valueStorage = <<>>, !.minKeyAsNibbles = <<>>,
                       !.wasIHStorage = FALSE, !.subTries = NoSubTries,
                       !.rl = rl, !.dbPrefixes = dbPrefixes,
                       !.itemPresent = FALSE])

\* ------------------------------------------------------------------------
\* iteration
\* ------------------------------------------------------------------------
\* getWitnessLen, the closure LoadSubTries installs over the IWL cursor
getWitnessLen(f, prefix) ==
  IF ~TrackWitnessSize THEN 0 ELSE Stores[f.boltDB].IWL[prefix]

\* c.SeekTo(target) unless skipped, then "advance past the storage to the
\* first account" when target is at account level and the cursor is on storage
AdvanceC(f, c, target, seek) ==
  LET Skip(C, f1, c1, na) ==
        LET Landed(c2) ==
              [f |-> [f1 EXCEPT !.nextAccountKey = na.out,
                                !.k = c2.pos, !.v = ValueAt(C, c2)],
               c |-> c2]
        IN IF na.ok
             THEN Landed(SeekTo(C, c1, na.out))
             ELSE [f |-> [f1 EXCEPT !.nextAccountKey = na.out, !.k = <<>>],
                   c |-> c1]
      After(C, f1, c1) ==
        IF Len(target) <= HashLength /\ Len(f1.k) > HashLength
          THEN Skip(C, f1, c1, nextAccount(f1.k, f1.nextAccountKey))
          ELSE [f |-> f1, c |-> c1]
      Sought(C, c1) ==
        After(C, [f EXCEPT !.k = c1.pos, !.v = ValueAt(C, c1)], c1)
      On(C) == IF seek THEN Sought(C, SeekTo(C, c, target)) ELSE After(C, f, c)
  IN On(Stores[f.boltDB].C)

\* the same on the IH cursor
AdvanceIH(f, ih, target, seek) ==
  LET Skip(IH, f1, i1, na) ==
        LET Landed(i2) ==
              [f |-> [f1 EXCEPT !.nextAccountKey = na.out,
                                !.ihK = i2.pos, !.ihV = ValueAt(IH, i2)],
               ih |-> i2]
        IN IF na.ok
             THEN Landed(SeekTo(IH, i1, na.out))
             ELSE [f |-> [f1 EXCEPT !.nextAccountKey = na.out, !.ihK = <<>>],
                   ih |-> i1]
      After(IH, f1, i1) ==
        IF Len(target) <= HashLength /\ Len(f1.ihK) > HashLength
          THEN Skip(IH, f1, i1, nextAccount(f1.ihK, f1.nextAccountKey))
          ELSE [f |-> f1, ih |-> i1]
      Sought(IH, i1) ==
        After(IH, [f EXCEPT !.ihK = i1.pos, !.ihV = ValueAt(IH, i1)], i1)
      On(IH) == IF seek THEN Sought(IH, SeekTo(IH, ih, target)) ELSE After(IH, f, ih)
  IN On(Stores[f.boltDB].IH)

\* RangeCmp that compares the whole bytes before the last fixed byte only
RangeCmp_WholeBytesOnly(L, first) ==
  IF L.minKey = <<>> THEN (IF ~first THEN 1 ELSE L.cmp)
  ELSE IF L.fixedbytes > 0
    THEN IF Len(L.minKey) < L.fixedbytes
           THEN LET c0 == Compare(L.minKey, Take(L.dbPrefix, Len(L.minKey)))
                IN IF c0 = 0 THEN -1 ELSE c0
           ELSE Compare(Take(L.minKey, L.fixedbytes - 1),
                        Take(L.dbPrefix, L.fixedbytes - 1))
    ELSE 0

\* cmp of minKey against the current range, as the "Adjust rangeIdx" loop
\* computes it at the top of each pass
RangeCmp(L, first) ==
  IF L.minKey = <<>> THEN (IF ~first THEN 1 ELSE L.cmp)
  ELSE IF L.fixedbytes > 0
    THEN IF Len(L.minKey) < L.fixedbytes
           THEN LET c0 == Compare(L.minKey, Take(L.dbPrefix, Len(L.minKey)))
                IN IF c0 = 0 THEN -1 ELSE c0
           ELSE LET c0 == Compare(Take(L.minKey, L.fixedbytes - 1),
                                  Take(L.dbPrefix, L.fixedbytes - 1))
                    k1 == BitAnd(L.minKey[L.fixedbytes], L.mask)
                    k2 == BitAnd(L.dbPrefix[L.fixedbytes], L.mask)
                IN IF c0 # 0 THEN c0
                   ELSE IF k1 < k2 THEN -1 ELSE IF k1 > k2 THEN 1 ELSE 0
    ELSE 0

\* cmp < 0: seek both cursors to the range prefix
SeekRange(L, first) ==
  LET Merged(f, c, ih, kb) ==
        [L EXCEPT !.f = f, !.c = c, !.ih = ih,
                  !.isIH = kb.isIH, !.minKey = kb.minKey,
                  !.cmp = IF L.fixedbytes = 0 THEN 0 ELSE L.cmp]
      SoughtIH(c, ri) == Merged(ri.f, c, ri.ih, keyIsBefore(ri.f.ihK, ri.f.k))
      SoughtC(rc) == SoughtIH(rc.c, AdvanceIH(rc.f, L.ih, L.dbPrefix, TRUE))
  IN SoughtC(AdvanceC(IF first /\ Len(L.dbPrefix) > HashLength
                        THEN [L.f EXCEPT !.accAddrHashWithInc =
                                CopyInto(@, Take(L.dbPrefix,
                                                 HashLength + IncarnationLength))]
                        ELSE L.f,
                      L.c, L.dbPrefix, TRUE))

\* cmp > 0: leave the current range; done = TRUE when iteration returns here
NextRange(L, first) ==
  LET Entered(f1, i) ==
        IF f1.rangeIdx = Len(f1.dbPrefixes)
          THEN [L |-> [L EXCEPT !.f = f1], done |-> TRUE]
          ELSE [L |-> [L EXCEPT
                         !.f = IF Len(f1.dbPrefixes[i]) > HashLength
                                 THEN [f1 EXCEPT !.accAddrHashWithInc =
                                         CopyInto(@, Take(f1.dbPrefixes[i],
                                                          HashLength + IncarnationLength))]
                                 ELSE f1,
                         !.fixedbytes = f1.fixedbytes[i], !.mask = f1.masks[i],
                         !.dbPrefix = f1.dbPrefixes[i], !.cutoff = f1.cutoffs[i]],
                done |-> FALSE]
      Left(f1) == Entered(f1, f1.rangeIdx + 1)
  IN Left(IF ~first
            THEN [L.f EXCEPT !.rangeIdx = @ + 1, !.itemPresent = TRUE,
                             !.itemWrites = @ + 1,
                             !.itemType = "CutoffStreamItem",
                             !.streamCutoff = L.cutoff]
            ELSE L.f)

\* The loop "for cmp != 0": exit is "fall" when the loop ends with cmp = 0,
\* "return" when iteration returns from inside it, and "hang" when a pass
\* leaves every variable of the loop as it found it, so the loop never ends
RECURSIVE AdjustRangeIdx(_, _)
AdjustRangeIdx(L, first) ==
  LET Sought(L2) ==
        IF [L2 EXCEPT !.c.n = 0, !.ih.n = 0] = [L EXCEPT !.c.n = 0, !.ih.n = 0]
          THEN [L |-> L2, exit |-> "hang"]
          ELSE AdjustRangeIdx(L2, first)
      Left(r) ==
        IF r.done THEN [L |-> r.L, exit |-> "return"]
        ELSE IF r.L = L THEN [L |-> r.L, exit |-> "hang"]
        ELSE AdjustRangeIdx(r.L, first)
      Pass(L1) ==
        IF L1.cmp = 0 /\ L1.f.itemPresent THEN [L |-> L1, exit |-> "return"]
        ELSE IF L1.cmp < 0 THEN Sought(SeekRange(L1, first))
        ELSE IF L1.cmp > 0 THEN Left(NextRange(L1, first))
        ELSE AdjustRangeIdx(L1, first)
  IN IF L.cmp = 0 THEN [L |-> L, exit |-> "fall"]
     ELSE Pass([L EXCEPT !.cmp = RangeCmp(L, first)])

\* storageKeyPart1, storageKeyPart2 of a storage-level key
KeyPart1(k) == IF Len(k) >= HashLength THEN Take(k, HashLength) ELSE k

KeyPart2(k) ==
  IF Len(k) >= HashLength + IncarnationLength
    THEN Drop(k, HashLength + IncarnationLength) ELSE <<>>

\* Results of iteration: the loader, both cursors, ret ("ok", "err" for a
\* returned error, "hang" when it does not return) and the database key of
\* the leaf or hash item it wrote (<<>> when it wrote none)
IterResult(f, c, ih, ret, key) ==
  [f |-> f, c |-> c, ih |-> ih, ret |-> ret, key |-> key]

\* WrongAccount comparing the account hash only, not the incarnation
WrongAccount_HashOnly(k, acc) ==
  Len(k) > HashLength /\ ~HasPrefix(k, Take(acc, HashLength))

\* "len(k) > common.HashLength && !bytes.HasPrefix(k, accAddrHashWithInc[:])":
\* a storage-level key that is not under the current account and incarnation
WrongAccount(k, acc) == Len(k) > HashLength /\ ~HasPrefix(k, acc)

\* MustDescend that does not look at the cutoff
MustDescend_RetainOnly(nibbles, cutoff, retain) == retain

\* MustDescend that does not consult the retain decider
MustDescend_CutoffOnly(nibbles, cutoff, retain) == Len(nibbles) < cutoff

\* "minKeyAsNibbles.Len() < cutoff" or "retain": the cached hash cannot be
\* used as is, the iterator goes to its children
MustDescend(nibbles, cutoff, retain) == Len(nibbles) < cutoff \/ retain

\* "if !isIH": the item comes from the main bucket
LeafPath(f, c, ih) ==
  LET acc == f.accAddrHashWithInc
      \* "fstl.k, fstl.v = ..." with the cursor at c1
      MovedC(C, g, c1, key) ==
        IterResult([g EXCEPT !.k = c1.pos, !.v = ValueAt(C, c1)],
                   c1, ih, "ok", key)
      SkipAccount(C, na) ==
        IF na.ok
          THEN MovedC(C, [f EXCEPT !.nextAccountKey = na.out],
                      SeekTo(C, c, na.out), <<>>)
          ELSE IterResult([f EXCEPT !.nextAccountKey = na.out, !.k = <<>>],
                          c, ih, "ok", <<>>)
      MovedIH(IH, r, i1) ==
        [r EXCEPT !.f.ihK = i1.pos, !.f.ihV = ValueAt(IH, i1), !.ih = i1]
      ToStorage(IH, acc1, r) ==
        IF ~HasPrefix(f.ihK, acc1) THEN MovedIH(IH, r, SeekTo(IH, ih, acc1))
        ELSE r
      Account(C, IH, d) ==
        LET f1 == [f EXCEPT !.itemPresent = TRUE, !.itemWrites = @ + 1,
                            !.itemType = "AccountStreamItem",
                            !.accountKey = f.k, !.accountHash = <<>>,
                            !.accountValue = d.a]
            Keyed(acc1) ==
              ToStorage(IH, acc1,
                        MovedC(C, [f1 EXCEPT !.accAddrHashWithInc = acc1],
                               SeekTo(C, c, acc1), f.k))
        IN IF d.err THEN IterResult(f1, c, ih, "err", <<>>)
           ELSE Keyed(Take(CopyInto(acc, f.k), HashLength)
                        \o InvertedIncarnation(d.a.Incarnation))
      On(C, IH) ==
        IF WrongAccount(f.k, acc)
          THEN IF Compare(f.k, acc) < 0
                 THEN \* skip all the irrelevant storage in the middle
                      MovedC(C, f, SeekTo(C, c, acc), <<>>)
                 ELSE SkipAccount(C, nextAccount(f.k, f.nextAccountKey))
        ELSE IF Len(f.k) > HashLength
          THEN MovedC(C, [f EXCEPT !.itemPresent = TRUE, !.itemWrites = @ + 1,
                                   !.itemType = "StorageStreamItem",
                                   !.storageKeyPart1 = KeyPart1(f.k),
                                   !.storageKeyPart2 = KeyPart2(f.k),
                                   !.storageHash = <<>>,
                                   !.storageValue = f.v],
                      CursorNext(C, c), f.k)
        ELSE Account(C, IH, DecodeForStorage(f.v))
  IN On(Stores[f.boltDB].C, Stores[f.boltDB].IH)

\* "ih part": the item comes from the cache of intermediate hashes
HashPath(f0, c, ih, minKey, cutoff) ==
  LET On(IH, f) ==
        LET acc == f.accAddrHashWithInc
            MovedIH(g, i1) ==
              IterResult([g EXCEPT !.ihK = i1.pos, !.ihV = ValueAt(IH, i1)],
                         c, i1, "ok", <<>>)
            SkipAccount(na) ==
              IF na.ok
                THEN MovedIH([f EXCEPT !.nextAccountKey = na.out],
                             SeekTo(IH, ih, na.out))
                ELSE IterResult([f EXCEPT !.nextAccountKey = na.out, !.ihK = <<>>],
                                c, ih, "ok", <<>>)
            SkippedIH(c1, ri) == IterResult(ri.f, c1, ri.ih, "ok", f.ihK)
            SkippedC(next, rc) ==
              SkippedIH(rc.c, AdvanceIH(rc.f, ih, next, ~HasPrefix(rc.f.ihK, next)))
            Written(f1, ns) ==
              IF ~ns.ok
                THEN \* no siblings left, and the last sub-tree was taken from IH
                     IterResult([f1 EXCEPT !.k = <<>>, !.ihK = <<>>],
                                c, ih, "ok", f.ihK)
                ELSE SkippedC(ns.next,
                              AdvanceC(f1, c, ns.next, ~HasPrefix(f1.k, ns.next)))
            Item(witnessLen) ==
              IF Len(f.ihK) > HashLength
                THEN [f EXCEPT !.itemPresent = TRUE, !.itemWrites = @ + 1,
                               !.itemType = "SHashStreamItem",
                               !.storageKeyPart1 = KeyPart1(f.ihK),
                               !.storageKeyPart2 = KeyPart2(f.ihK),
                               !.storageHash = f.ihV,
                               !.storageValue = <<>>,
                               !.storageWitnessLen = witnessLen]
                ELSE [f EXCEPT !.itemPresent = TRUE, !.itemWrites = @ + 1,
                               !.itemType = "AHashStreamItem",
                               !.accountKey = f.ihK,
                               !.accountHash = f.ihV,
                               !.accountWitnessLen = witnessLen]
        IN IF MustDescend(f.minKeyAsNibbles, cutoff,
                          Retain(f.rl, f.minKeyAsNibbles))
             THEN \* go to children, not to sibling
                  MovedIH(f, CursorNext(IH, ih))
           ELSE IF WrongAccount(f.ihK, acc)
             THEN IF Compare(f.ihK, acc) < 0
                    THEN MovedIH(f, SeekTo(IH, ih, acc))
                    ELSE SkipAccount(nextAccount(f.ihK, f.nextAccountKey))
           ELSE Written(Item(getWitnessLen(f, f.ihK)), nextSubtree(f.ihK))
  IN On(Stores[f0.boltDB].IH,
        [f0 EXCEPT !.minKeyAsNibbles = keyToNibblesWithoutInc(minKey)])

\* iteration(c, ih, first)
iteration(f, c, ih, first) ==
  LET Adjusted(r) ==
        IF r.exit = "hang" THEN IterResult(r.L.f, r.L.c, r.L.ih, "hang", <<>>)
        ELSE IF r.exit = "return" THEN IterResult(r.L.f, r.L.c, r.L.ih, "ok", <<>>)
        ELSE IF ~r.L.isIH THEN LeafPath(r.L.f, r.L.c, r.L.ih)
        ELSE HashPath(r.L.f, r.L.c, r.L.ih, r.L.minKey, r.L.cutoff)
      Start(kb, i) ==
        Adjusted(AdjustRangeIdx([f |-> f, c |-> c, ih |-> ih,
                                 isIH |-> kb.isIH, minKey |-> kb.minKey,
                                 fixedbytes |-> f.fixedbytes[i],
                                 cutoff |-> f.cutoffs[i],
                                 dbPrefix |-> f.dbPrefixes[i],
                                 mask |-> f.masks[i], cmp |-> -1], first))
  IN Start(IF first THEN [isIH |-> FALSE, minKey |-> <<>>]
           ELSE keyIsBefore(f.ihK, f.k),
           f.rangeIdx + 1)

\* ------------------------------------------------------------------------
\* The hash builder and the structural step
\* ------------------------------------------------------------------------
\* Length of the longest common prefix of two nibble paths
PrefixLen(a, b) ==
  LET n == Min2(Len(a), Len(b))
      d == {i \in 1..n : a[i] # b[i]}
  IN IF d = {} THEN n ELSE (CHOOSE j \in d : \A m \in d : j <= m) - 1

\* One call made on the hash builder
HbCall(op, curr, succ, kind, data) ==
  [op |-> op, curr |-> curr, succ |-> succ, kind |-> kind,
   Hash |-> data.Hash, DataLen |-> data.DataLen, Value |-> data.Value,
   Balance |-> data.Balance, Nonce |-> data.Nonce,
   Incarnation |-> data.Incarnation, FieldSet |-> data.FieldSet]

NoData ==
  [Hash |-> <<>>, DataLen |-> 0, Value |-> <<>>, Balance |-> 0, Nonce |-> 0,
   Incarnation |-> 0, FieldSet |-> {}]

\* GenStructStep(retain, curr, succ, hb, data, groups, false): the step is
\* recorded on the hash builder, and groups afterwards covers the prefix
\* that curr shares with succ, with a child registered at its last level
GenStructStep(f, curr, succ, kind, data) ==
  LET n == PrefixLen(curr, succ)
  IN [f EXCEPT
        !.hb = Append(@, HbCall("step", curr, succ, kind, data)),
        !.groups = IF succ = <<>> THEN <<>>
                   ELSE [i \in 1..(n + 1) |->
                           IF i = n + 1 THEN 1
                           ELSE IF i <= Len(f.groups) THEN f.groups[i] ELSE 0]]

\* GenStructStepHashData, GenStructStepLeafData, GenStructStepAccountData
\* HashDataOf that passes no witness length
HashDataOf_NoDataLen(f) == [NoData EXCEPT !.Hash = f.hashData.Hash]

HashDataOf(f) ==
  [NoData EXCEPT !.Hash = f.hashData.Hash, !.DataLen = f.hashData.DataLen]

LeafDataOf(f) == [NoData EXCEPT !.Value = f.leafData.Value]

AccountDataOf(f) ==
  [NoData EXCEPT !.Balance = f.accData.Balance, !.Nonce = f.accData.Nonce,
                 !.Incarnation = f.accData.Incarnation,
                 !.FieldSet = f.accData.FieldSet]

\* hb.hash(codeHash, 0)
HbHash(f) ==
  [f EXCEPT !.hb = Append(@, HbCall("hash", <<>>, <<>>, "code", NoData))]

\* hb.root() and hb.rootHash(): the root is what the recorded calls built,
\* and the hash of a builder nothing was fed to is the zero hash
HbRoot(hb) == hb

HbRootHash(hb) == [zero |-> hb = <<>>, of |-> hb]

\* common.Hash{}
EmptyHash == [zero |-> TRUE, of |-> <<>>]

\* "for len(groups) > 0 && groups[len(groups)-1] == 0 { groups = groups[:len-1] }"
TrimGroups(g) ==
  LET nz == {i \in 1..Len(g) : g[i] # 0}
  IN IF nz = {} THEN <<>>
     ELSE Take(g, CHOOSE j \in nz : \A m \in nz : m <= j)

\* accData filled from the pending account fstl.a
FillAccData(f) ==
  [f EXCEPT !.accData.Balance = f.a.Balance,
            !.accData.Nonce = f.a.Nonce,
            !.accData.Incarnation = f.a.Incarnation,
            !.accData.FieldSet =
               @ \cup (IF f.a.Balance # 0 THEN {"Balance"} ELSE {})
                 \cup (IF f.a.Nonce # 0 THEN {"Nonce"} ELSE {})]

\* ------------------------------------------------------------------------
\* Finalisers and walkers.  Each result carries ret: "ok", or "panic" when
\* the code indexes a buffer past its end
\* ------------------------------------------------------------------------
\* finaliseStorageRoot(cutoff) returns (ok, err)
finaliseStorageRoot(f, cutoff) ==
  LET Trimmed(f4) ==
        [f |-> [f4 EXCEPT !.groups = TrimGroups(IF Len(f4.groups) >= cutoff
                                                  THEN Take(f4.groups, cutoff - 1)
                                                  ELSE f4.groups),
                          !.currStorage = <<>>, !.succStorage = <<>>,
                          !.wasIHStorage = FALSE],
         ok |-> TRUE, ret |-> "ok"]
      Step(f3) ==
        Trimmed(GenStructStep(f3, f3.currStorage, f3.succStorage,
                              IF f3.wasIHStorage THEN "hash" ELSE "leaf",
                              IF f3.wasIHStorage THEN HashDataOf(f3)
                                                 ELSE LeafDataOf(f3)))
      Pending(f2) ==
        Step(IF f2.wasIHStorage
               THEN [f2 EXCEPT !.hashData.Hash = BytesToHash(f2.valueStorage),
                               !.hashData.DataLen = f2.storageWitnessLen]
               ELSE [f2 EXCEPT !.leafData.Value = f2.valueStorage])
      Moved(f1, cs) ==
        IF Len(cs) > 0
          THEN IF Len(cs) < cutoff \/ cutoff < 1
                 THEN [f |-> f1, ok |-> FALSE, ret |-> "panic"]
                 ELSE Pending([f1 EXCEPT !.succStorage =
                                 Take(cs, cutoff - 1) \o <<cs[cutoff] + 1>>])
          ELSE [f |-> f1, ok |-> FALSE, ret |-> "ok"]
  IN Moved([f EXCEPT !.currStorage = f.succStorage, !.succStorage = <<>>],
           f.succStorage)

\* finaliseRoot(cutoff)
finaliseRoot(f, cutoff) ==
  LET \* only storage resolution required, no account records
      StorageOnly(r) ==
        IF r.ret # "ok" THEN [f |-> r.f, ret |-> r.ret]
        ELSE IF r.ok
          THEN [f |-> [r.f EXCEPT
                         !.subTries.roots = Append(@, HbRoot(r.f.hb)),
                         !.subTries.Hashes = Append(@, HbRootHash(r.f.hb))],
                ret |-> "ok"]
          ELSE [f |-> [r.f EXCEPT
                         !.subTries.roots = Append(@, <<>>),
                         !.subTries.Hashes = Append(@, EmptyHash)],
                ret |-> "ok"]
      Close(f4) ==
        [f |-> [f4 EXCEPT
                  !.subTries.roots = Append(@, HbRoot(f4.hb)),
                  !.subTries.Hashes = Append(@, HbRootHash(f4.hb)),
                  !.groups = <<>>, !.hb = <<>>,
                  !.wasIH = FALSE, !.wasIHStorage = FALSE,
                  !.curr = <<>>, !.succ = <<>>,
                  !.currStorage = <<>>, !.succStorage = <<>>],
         ret |-> "ok"]
      Trimmed(f3) ==
        Close([f3 EXCEPT !.groups = TrimGroups(IF Len(f3.groups) > cutoff
                                                 THEN Take(f3.groups, cutoff)
                                                 ELSE f3.groups),
                         !.accData.FieldSet = {}])
      \* the pending item is a cached hash
      StepHash(fh) ==
        Trimmed(GenStructStep(fh, fh.curr, fh.succ, "hash", HashDataOf(fh)))
      \* the pending item is an account: close its storage first
      StepAccount(fa) ==
        Trimmed(GenStructStep(fa, fa.curr, fa.succ, "account", AccountDataOf(fa)))
      Account(rs) ==
        IF rs.ret # "ok" THEN [f |-> rs.f, ret |-> rs.ret]
        ELSE StepAccount(FillAccData(
               [rs.f EXCEPT !.accData.FieldSet =
                               IF rs.ok THEN @ \cup {"Storage"} ELSE @,
                            !.wasIHStorage = FALSE]))
      Pending(f2) ==
        IF f2.wasIH
          THEN StepHash([f2 EXCEPT !.hashData.Hash = BytesToHash(f2.value),
                                   !.hashData.DataLen = f2.accountWitnessLen])
          ELSE Account(finaliseStorageRoot(f2, 2 * HashLength))
      Moved(f1, cu) ==
        IF Len(cu) = 0 THEN Close(f1)
        ELSE IF cutoff > 0 /\ Len(cu) < cutoff THEN [f |-> f1, ret |-> "panic"]
        ELSE Pending(IF cutoff > 0
                       THEN [f1 EXCEPT !.succ =
                               Take(cu, cutoff - 1) \o <<cu[cutoff] + 1>>]
                       ELSE f1)
  IN IF cutoff >= 2 * HashLength
       THEN StorageOnly(finaliseStorageRoot(f, cutoff))
       ELSE Moved([f EXCEPT !.curr = f.succ, !.succ = <<>>], f.succ)

\* WalkerStorage(isIH, rangeIdx, kPart1, kPart2, v, h, witnessLen)
WalkerStorage(f, isIH, kPart1, kPart2, v, h, witnessLen) ==
  LET \* remember the current key and value
      Remember(f3) ==
        [f |-> IF isIH
                 THEN [f3 EXCEPT !.wasIHStorage = isIH, !.valueStorage = h,
                                 !.witnessLenStorage = witnessLen]
                 ELSE [f3 EXCEPT !.wasIHStorage = isIH, !.valueStorage = v],
         ret |-> "ok"]
      Step(f2) ==
        GenStructStep(f2, f2.currStorage, f2.succStorage,
                      IF f2.wasIHStorage THEN "hash" ELSE "leaf",
                      IF f2.wasIHStorage THEN HashDataOf(f2) ELSE LeafDataOf(f2))
      Moved(f1) ==
        Remember(IF Len(f1.currStorage) > 0
                   THEN Step(IF f1.wasIHStorage
                               THEN [f1 EXCEPT
                                       !.hashData.Hash = BytesToHash(f1.valueStorage),
                                       !.hashData.DataLen = f1.witnessLenStorage]
                               ELSE [f1 EXCEPT !.leafData.Value = f1.valueStorage])
                   ELSE f1)
  IN Moved([f EXCEPT !.currStorage = f.succStorage,
                     !.succStorage = keyToNibbles(kPart1) \o keyToNibbles(kPart2)
                                       \o (IF ~isIH THEN <<16>> ELSE <<>>)])

\* CopyAccount that places a code hash on the stack for every account
CopyAccount_AlwaysHash(f, v) ==
  HbHash([f EXCEPT !.a = v, !.accData.FieldSet = @ \cup {"Code"}])

\* the tail of WalkerAccount for an account record: fstl.a.Copy(v), and the
\* code hash placed on the stack first when there is code
CopyAccount(f, v) ==
  IF ~IsEmptyCodeHash(v)
    THEN HbHash([f EXCEPT !.a = v, !.accData.FieldSet = @ \cup {"Code"}])
    ELSE [f EXCEPT !.a = v]

\* WalkerAccount(isIH, rangeIdx, k, v, h, witnessLen)
WalkerAccount(f, isIH, k, v, h, witnessLen) ==
  LET \* remember the current key and value
      Remembered(f3) ==
        IF isIH
          THEN [f |-> [f3 EXCEPT !.value = h, !.witnessLenAccount = witnessLen],
                ret |-> "ok"]
        ELSE [f |-> CopyAccount(f3, v), ret |-> "ok"]
      Remember(f2) == Remembered([f2 EXCEPT !.wasIH = isIH])
      Stepped(fs) == Remember([fs EXCEPT !.accData.FieldSet = {}])
      Step(fd, kind, data) ==
        Stepped(GenStructStep([fd EXCEPT !.wasIHStorage = FALSE,
                                         !.currStorage = <<>>,
                                         !.succStorage = <<>>],
                              fd.curr, fd.succ, kind, data))
      \* the pending item is a cached hash
      StepHash(fh) == Step(fh, "hash", HashDataOf(fh))
      \* the pending item is an account: close its storage first
      StepAccount(fa) == Step(fa, "account", AccountDataOf(fa))
      Account(rs) ==
        IF rs.ret # "ok" THEN [f |-> rs.f, ret |-> rs.ret]
        ELSE StepAccount(FillAccData(
               [rs.f EXCEPT !.accData.FieldSet =
                               IF rs.ok THEN @ \cup {"Storage"} ELSE @]))
      Moved(f1) ==
        IF Len(f1.curr) = 0 THEN Remember(f1)
        ELSE IF f1.wasIH
          THEN StepHash([f1 EXCEPT !.hashData.Hash = CopyInto(@, f1.value),
                                   !.hashData.DataLen = f1.witnessLenAccount])
          ELSE Account(finaliseStorageRoot(f1, 2 * HashLength))
  IN Moved([f EXCEPT !.curr = f.succ,
                     !.succ = keyToNibbles(k) \o (IF ~isIH THEN <<16>> ELSE <<>>)])

\* ------------------------------------------------------------------------
\* LoadSubTries, one step at a time, on a record w of the loader (f), the
\* cursors of the open transaction (c, ih), the position of the driver (pc),
\* the items dispatched so far (stream), the database key of the item last
\* written by iteration (itemKey) and the SubTries returned (result)
\* ------------------------------------------------------------------------
StreamItemOf(f, key) ==
  [type |-> f.itemType, key |-> key, range |-> f.rangeIdx,
   cutoff |-> IF f.itemType = "CutoffStreamItem" THEN f.streamCutoff ELSE 0]

AfterIteration(w, r) ==
  [w EXCEPT !.f = r.f, !.c = r.c, !.ih = r.ih, !.itemKey = r.key,
            !.pc = IF r.ret = "ok" THEN "loop" ELSE IF r.ret = "err" THEN "error"
                   ELSE r.ret,
            !.result = IF r.ret = "err" THEN r.f.subTries ELSE w.result]

\* entry of LoadSubTries up to the end of iteration(c, ih, true)
StartLoad(w) ==
  IF Len(w.f.dbPrefixes) = 0
    THEN [w EXCEPT !.pc = "done", !.result = NoSubTries]
    ELSE AfterIteration(w, iteration([w.f EXCEPT !.itemWrites = 0],
                                     NewCursor, NewCursor, TRUE))

\* one pass of "for !fstl.itemPresent"
Iterate(w) ==
  AfterIteration(w, iteration([w.f EXCEPT !.itemWrites = 0],
                              [w.c EXCEPT !.n = 0], [w.ih EXCEPT !.n = 0], FALSE))

\* the switch on itemType, "itemPresent = false", and the test of the outer
\* loop, after which LoadSubTries returns when every range was left
AfterDispatch(w, r) ==
  LET f1 == [r.f EXCEPT !.itemPresent = FALSE]
      fin == f1.rangeIdx >= Len(f1.dbPrefixes)
  IN IF r.ret # "ok"
       THEN [w EXCEPT !.f = r.f, !.pc = r.ret,
                      !.stream = Append(@, StreamItemOf(w.f, w.itemKey))]
       ELSE [w EXCEPT !.f = f1, !.pc = IF fin THEN "done" ELSE "loop",
                      !.stream = Append(@, StreamItemOf(w.f, w.itemKey)),
                      !.result = IF fin THEN f1.subTries ELSE w.result]

DispatchStorage(w) ==
  LET f == w.f
  IN AfterDispatch(w, WalkerStorage(f, f.itemType = "SHashStreamItem",
                                    f.storageKeyPart1, f.storageKeyPart2,
                                    f.storageValue, f.storageHash,
                                    f.storageWitnessLen))

DispatchAccount(w) ==
  LET f == w.f
  IN AfterDispatch(w, WalkerAccount(f, f.itemType = "AHashStreamItem",
                                    f.accountKey, f.accountValue,
                                    f.accountHash, f.accountWitnessLen))

DispatchCutoff(w) == AfterDispatch(w, finaliseRoot(w.f, w.f.streamCutoff))

IsStorageItem(f) == f.itemType \in {"StorageStreamItem", "SHashStreamItem"}

IsAccountItem(f) == f.itemType \in {"AccountStreamItem", "AHashStreamItem"}

\* the step LoadSubTries takes next
LoadStep(w) ==
  IF w.pc = "ready" THEN StartLoad(w)
  ELSE IF ~w.f.itemPresent THEN Iterate(w)
  ELSE IF IsStorageItem(w.f) THEN DispatchStorage(w)
  ELSE IF IsAccountItem(w.f) THEN DispatchAccount(w)
  ELSE DispatchCutoff(w)

\* LoadSubTries run to its end: to its return, or to where it stops for good
RECURSIVE LoadSubTries(_)
LoadSubTries(w) ==
  IF w.pc \in {"ready", "loop"} THEN LoadSubTries(LoadStep(w)) ELSE w

\* Reset on a record w
ResetW(w, db, rl, ranges) ==
  LET Done(r) ==
        [f |-> r.f, c |-> NewCursor, ih |-> NewCursor,
         pc |-> IF r.err THEN "resetErr" ELSE "ready",
         stream |-> <<>>, itemKey |-> <<>>, result |-> NoSubTries]
  IN Done(Reset(w.f, db, rl, ranges))

\* a loader as constructed
NewW ==
  [f |-> NewFlatDbSubTrieLoader, c |-> NewCursor, ih |-> NewCursor,
   pc |-> "new", stream |-> <<>>, itemKey |-> <<>>, result |-> NoSubTries]

\* ------------------------------------------------------------------------
\* PlainStateWriter: the state database, the change-set writer and the
\* operations
\* ------------------------------------------------------------------------
\* common.AddressLength
AddressLength == 20

Addr1 == Rep(1, AddressLength)
Addr2 == Rep(2, AddressLength)
Addresses == {Addr1, Addr2}

\* n >> (8 * k)
RECURSIVE ShiftRightBytes(_, _)
ShiftRightBytes(n, k) == IF k = 0 THEN n ELSE ShiftRightBytes(n \div 256, k - 1)

\* binary.BigEndian.PutUint64
BigEndianUint64(n) == [i \in 1..8 |-> ShiftRightBytes(n, 8 - i) % 256]

\* uint256.Int.Bytes: big-endian without leading zeros, empty for zero
RECURSIVE Uint256Bytes(_)
Uint256Bytes(n) ==
  IF n = 0 THEN <<>> ELSE Append(Uint256Bytes(n \div 256), n % 256)

\* dbutils.PlainGenerateStoragePrefix: address ++ incarnation
PlainGenerateStoragePrefix(address, incarnation) ==
  address \o BigEndianUint64(incarnation)

\* dbutils.PlainGenerateCompositeStorageKey: address ++ incarnation ++ key
PlainGenerateCompositeStorageKey(address, incarnation, key) ==
  address \o BigEndianUint64(incarnation) \o key

\* the accounts, code and storage values the writer is called with
WriterAccounts ==
  { [Nonce |-> 1, Balance |-> 0, Incarnation |-> 0, Code |-> 0],
    [Nonce |-> 0, Balance |-> 5, Incarnation |-> 1, Code |-> 1] }
WriterIncarnations == {1}
WriterSlots == {S1}
WriterValues == {0, 1, 258}
CodeHash1 == Rep(7, HashLength)
Code1 == <<96, 0>>

\* a database holding one contract with one storage slot
NewStateDb ==
  [PlainStateBucket |->
     Bucket({ <<Addr1, EncodeForStorage([Nonce |-> 0, Balance |-> 5,
                                         Incarnation |-> 1, Code |-> 1])>>,
              <<PlainGenerateCompositeStorageKey(Addr1, 1, S1), <<1>>>> }),
   CodeBucket |-> Bucket({}),
   PlainContractCodeBucket |-> Bucket({}),
   IncarnationMapBucket |-> Bucket({})]

\* a writer at the start of an operation: the database, the calls the
\* operation has made to the change-set writer and the database, the error it
\* returns, and the ordinal of its call that fails (0 for none)
Writer(db, fail) == [db |-> db, events |-> <<>>, err |-> "nil", fail |-> fail]

\* whether the call the operation is about to make fails
NextCallFails(w) == Len(w.events) + 1 = w.fail

WriterEvent(target, call, bucket, key, failed) ==
  [target |-> target, call |-> call, bucket |-> bucket, key |-> key,
   failed |-> failed]

\* ChangeSetWriter.<name>: records the change or returns an error
CswCall(w, name) ==
  LET Do(bad) ==
        [w EXCEPT !.events = Append(@, WriterEvent("csw", name, "", <<>>, bad)),
                  !.err = IF bad THEN "cswErr" ELSE "nil"]
  IN Do(NextCallFails(w))

\* ethdb.Database.Put: sets the value of the key, or fails and changes nothing
DbPut(w, bucket, key, value) ==
  LET Do(bad) ==
        [w EXCEPT !.events = Append(@, WriterEvent("db", "Put", bucket, key, bad)),
                  !.err = IF bad THEN "dbErr" ELSE "nil",
                  !.db[bucket] =
                     IF bad THEN @
                     ELSE [k \in DOMAIN @ \cup {key} |->
                             IF k = key THEN value ELSE @[k]]]
  IN Do(NextCallFails(w))

\* ethdb.Database.Delete: removes the key, or fails and changes nothing
DbDelete(w, bucket, key) ==
  LET Do(bad) ==
        [w EXCEPT !.events = Append(@, WriterEvent("db", "Delete", bucket, key, bad)),
                  !.err = IF bad THEN "dbErr" ELSE "nil",
                  !.db[bucket] =
                     IF bad THEN @ ELSE [k \in DOMAIN @ \ {key} |-> @[k]]]
  IN Do(NextCallFails(w))

UpdateAccountData(w, address, original, account) ==
  LET After(w1) ==
        IF w1.err # "nil" THEN w1
        ELSE DbPut(w1, "PlainStateBucket", address, EncodeForStorage(account))
  IN After(CswCall(w, "UpdateAccountData"))

UpdateAccountCode(w, address, incarnation, codeHash, code) ==
  LET After2(w2) ==
        IF w2.err # "nil" THEN w2
        ELSE DbPut(w2, "PlainContractCodeBucket",
                   PlainGenerateStoragePrefix(address, incarnation), codeHash)
      After(w1) ==
        IF w1.err # "nil" THEN w1
        ELSE After2(DbPut(w1, "CodeBucket", codeHash, code))
  IN After(CswCall(w, "UpdateAccountCode"))

DeleteAccount(w, address, original) ==
  LET After2(w2) ==
        IF w2.err # "nil" THEN w2
        ELSE IF original.Incarnation > 0
          THEN DbPut(w2, "IncarnationMapBucket", address,
                     BigEndianUint64(original.Incarnation))
          ELSE w2
      After(w1) ==
        IF w1.err # "nil" THEN w1
        ELSE After2(DbDelete(w1, "PlainStateBucket", address))
  IN After(CswCall(w, "DeleteAccount"))

\* WriteAccountStorage without the test for an unchanged value
WriteAccountStorage_NoEqualTest(w, address, incarnation, key, original, value) ==
  LET Write(w1, compositeKey, v) ==
        IF Len(v) = 0 THEN DbDelete(w1, "PlainStateBucket", compositeKey)
        ELSE DbPut(w1, "PlainStateBucket", compositeKey, v)
      After(w1) ==
        IF w1.err # "nil" THEN w1
        ELSE Write(w1, PlainGenerateCompositeStorageKey(address, incarnation, key),
                   Uint256Bytes(value))
  IN After(CswCall(w, "WriteAccountStorage"))

WriteAccountStorage(w, address, incarnation, key, original, value) ==
  LET Write(w1, compositeKey, v) ==
        IF Len(v) = 0 THEN DbDelete(w1, "PlainStateBucket", compositeKey)
        ELSE DbPut(w1, "PlainStateBucket", compositeKey, v)
      After(w1) ==
        IF w1.err # "nil" THEN w1
        ELSE IF original = value THEN w1
        ELSE Write(w1, PlainGenerateCompositeStorageKey(address, incarnation, key),
                   Uint256Bytes(value))
  IN After(CswCall(w, "WriteAccountStorage"))

CreateContract(w, address) == CswCall(w, "CreateContract")

\* the record of an operation: its name and arguments, the calls it made and
\* the error it returned
Call(op, address, incarnation, key, original, value, w) ==
  [op |-> op, address |-> address, incarnation |-> incarnation, key |-> key,
   original |-> original, value |-> value, events |-> w.events, err |-> w.err]

NoCall == Call("none", <<>>, 0, <<>>, 0, 0, Writer(NewStateDb, 0))

\* ------------------------------------------------------------------------
\* The state machine
\* ------------------------------------------------------------------------
VARIABLES
  fstl,     \* the FlatDbSubTrieLoader
  c,        \* cursor over the CurrentState bucket
  ih,       \* cursor over the IntermediateTrieHash bucket
  pc,       \* "new", "ready", "resetErr", "loop", "done", "error", "hang", "panic"
  stream,   \* items dispatched by the current LoadSubTries, in order
  itemKey,  \* database key of the item last written by iteration
  result,   \* SubTries returned by LoadSubTries
  args,     \* arguments of the last Reset
  loads     \* number of Reset calls so far

VARIABLES
  stateDb,  \* the buckets of the PlainStateWriter's database
  lastCall, \* the last PlainStateWriter operation: arguments, calls made, error
  writes    \* number of PlainStateWriter operations so far

loaderVars == <<fstl, c, ih, pc, stream, itemKey, result, args, loads>>
writerVars == <<stateDb, lastCall, writes>>
vars == <<fstl, c, ih, pc, stream, itemKey, result, args, loads,
          stateDb, lastCall, writes>>

World ==
  [f |-> fstl, c |-> c, ih |-> ih, pc |-> pc, stream |-> stream,
   itemKey |-> itemKey, result |-> result]

Becomes(w) ==
  /\ fstl' = w.f
  /\ c' = w.c
  /\ ih' = w.ih
  /\ pc' = w.pc
  /\ stream' = w.stream
  /\ itemKey' = w.itemKey
  /\ result' = w.result
  /\ UNCHANGED writerVars

Init ==
  /\ fstl = NewW.f
  /\ c = NewW.c
  /\ ih = NewW.ih
  /\ pc = NewW.pc
  /\ stream = NewW.stream
  /\ itemKey = NewW.itemKey
  /\ result = NewW.result
  /\ args = [db |-> 0, rl |-> 0, ranges |-> 0]
  /\ loads = 0
  /\ stateDb = NewStateDb
  /\ lastCall = NoCall
  /\ writes = 0

\* the arguments Reset is called with: a store, a retain decider and a list of
\* ranges.  Deciders other than the first are paired with the stores whose
\* IntermediateTrieHash bucket holds a key they retain, and the decider built
\* from a storage key with the whole key space and the storage ranges; the
\* empty store and the store without KV are paired with the first range
\* lists only, the storage ranges with the stores that hold storage, and the
\* range that ends inside the incarnation with the stores that cache the
\* hash of the storage root; the list whose second range has the longer
\* prefix goes, with the first decider, with the stores that cache a hash
\* in its first range, and the list of an account range followed by a
\* storage range with the plain store.
Inputs ==
  { in \in StoreIds \X RetainIds \X RangeListIds :
      /\ in[2] > 1 => \E P \in DOMAIN Stores[in[1]].IH :
                         Retain(in[2], keyToNibblesWithoutInc(P))
      /\ in[2] = 3 => in[3] \notin 3..7
      /\ (~Stores[in[1]].hasKV \/ DOMAIN Stores[in[1]].C = {}) => in[3] <= 3
      /\ in[3] \in 8..9 =>
           \E k \in DOMAIN Stores[in[1]].C : Len(k) > HashLength + IncarnationLength
      /\ in[3] = 10 => A2 \o InvertedIncarnation(2) \in DOMAIN Stores[in[1]].IH
      /\ in[3] = 11 => (in[2] = 1 /\ <<17>> \in DOMAIN Stores[in[1]].IH)
      /\ in[3] = 12 => (in[2] = 1 /\ in[1] = 2) }

DoReset ==
  /\ pc \in {"new", "ready", "resetErr", "done", "error"}
  /\ loads < MaxLoads
  /\ \E in \in Inputs :
       /\ Becomes(ResetW(World, in[1], in[2], RangeLists[in[3]]))
       /\ args' = [db |-> in[1], rl |-> in[2], ranges |-> in[3]]
  /\ loads' = loads + 1

DoStartLoad ==
  /\ pc = "ready"
  /\ Becomes(StartLoad(World))
  /\ UNCHANGED <<args, loads>>

DoIterate ==
  /\ pc = "loop"
  /\ ~fstl.itemPresent
  /\ Becomes(Iterate(World))
  /\ UNCHANGED <<args, loads>>

DoDispatchStorage ==
  /\ pc = "loop"
  /\ fstl.itemPresent
  /\ IsStorageItem(fstl)
  /\ Becomes(DispatchStorage(World))
  /\ UNCHANGED <<args, loads>>

DoDispatchAccount ==
  /\ pc = "loop"
  /\ fstl.itemPresent
  /\ IsAccountItem(fstl)
  /\ Becomes(DispatchAccount(World))
  /\ UNCHANGED <<args, loads>>

DoDispatchCutoff ==
  /\ pc = "loop"
  /\ fstl.itemPresent
  /\ fstl.itemType = "CutoffStreamItem"
  /\ Becomes(DispatchCutoff(World))
  /\ UNCHANGED <<args, loads>>

Next ==
  \/ DoReset
  \/ DoStartLoad
  \/ DoIterate
  \/ DoDispatchStorage
  \/ DoDispatchAccount
  \/ DoDispatchCutoff

Spec == Init /\ [][Next]_vars

\* ------------------------------------------------------------------------
\* The PlainStateWriter's operations as a state machine
\* ------------------------------------------------------------------------
\* the operation returned w: the database is what it left, the call is recorded
Wrote(w, call) ==
  /\ stateDb' = w.db
  /\ lastCall' = call
  /\ writes' = writes + 1
  /\ UNCHANGED loaderVars

DoUpdateAccountData ==
  /\ writes < MaxWrites
  /\ \E address \in Addresses, account \in WriterAccounts, fail \in 0..2 :
       LET Ret(w) == Wrote(w, Call("UpdateAccountData", address, 0, <<>>, 0, 0, w))
       IN Ret(UpdateAccountData(Writer(stateDb, fail), address, ZeroAccount, account))

DoUpdateAccountCode ==
  /\ writes < MaxWrites
  /\ \E address \in Addresses, incarnation \in WriterIncarnations, fail \in 0..3 :
       LET Ret(w) ==
             Wrote(w, Call("UpdateAccountCode", address, incarnation, <<>>, 0, 0, w))
       IN Ret(UpdateAccountCode(Writer(stateDb, fail), address, incarnation,
                                CodeHash1, Code1))

DoDeleteAccount ==
  /\ writes < MaxWrites
  /\ \E address \in Addresses, original \in WriterAccounts, fail \in 0..3 :
       LET Ret(w) == Wrote(w, Call("DeleteAccount", address, 0, <<>>, 0, 0, w))
       IN Ret(DeleteAccount(Writer(stateDb, fail), address, original))

DoWriteAccountStorage ==
  /\ writes < MaxWrites
  /\ \E address \in Addresses, incarnation \in WriterIncarnations,
        key \in WriterSlots, original \in WriterValues, value \in WriterValues,
        fail \in 0..2 :
       LET Ret(w) ==
             Wrote(w, Call("WriteAccountStorage", address, incarnation, key,
                           original, value, w))
       IN Ret(WriteAccountStorage(Writer(stateDb, fail), address, incarnation,
                                  key, original, value))

DoCreateContract ==
  /\ writes < MaxWrites
  /\ \E address \in Addresses, fail \in 0..1 :
       LET Ret(w) == Wrote(w, Call("CreateContract", address, 0, <<>>, 0, 0, w))
       IN Ret(CreateContract(Writer(stateDb, fail), address))

WriterNext ==
  \/ DoUpdateAccountData
  \/ DoUpdateAccountCode
  \/ DoDeleteAccount
  \/ DoWriteAccountStorage
  \/ DoCreateContract

WriterSpec == Init /\ [][WriterNext]_vars

\* ------------------------------------------------------------------------
\* Vocabulary of the properties
\* ------------------------------------------------------------------------
TheStore == Stores[fstl.boltDB]

TheRanges == RangeLists[args.ranges]

Loading == pc \in {"loop", "done", "error", "hang", "panic"}

\* key k matches the prefix of range r on its first fixedbits bits
InRange(k, r) ==
  LET bm == Bytesmask(r.fixedbits)
  IN /\ Len(k) >= bm.fixedbytes
     /\ RangeCmp([minKey |-> k, fixedbytes |-> bm.fixedbytes,
                  dbPrefix |-> r.dbPrefix, mask |-> bm.mask, cmp |-> 0],
                 FALSE) = 0

\* range r holds no key of the main bucket and no cached hash
RangeIsEmpty(store, r) ==
  \A k \in (DOMAIN store.C) \cup (DOMAIN store.IH) : k = <<>> \/ ~InRange(k, r)

IsLeafOrHash(it) == it.type # "CutoffStreamItem"

IsCutoff(it) == it.type = "CutoffStreamItem"

\* number of Cutoff items among the first n dispatched items
CutoffsBefore(n) == Cardinality({j \in 1..n : IsCutoff(stream[j])})

CutoffPending == fstl.itemPresent /\ fstl.itemType = "CutoffStreamItem"

\* C1: a load that returns without error yields one root and one hash per
\* requested range, in range order, and the hash of a range is the zero hash
\* exactly when the range held no key
C1_OneEntryPerRange ==
  (pc = "done" /\ args.ranges # 0 /\ Len(TheRanges) > 0) =>
     /\ Len(result.roots) = Len(TheRanges)
     /\ Len(result.Hashes) = Len(TheRanges)
     /\ \A i \in 1..Len(TheRanges) :
          i <= Len(result.Hashes) =>
            (result.Hashes[i].zero <=> RangeIsEmpty(TheStore, TheRanges[i]))

\* C2: every advance of rangeIdx comes with exactly one Cutoff item, which is
\* dispatched after the items of the range left and before any leaf or hash
\* item of the next range, also when the minimum key skips whole ranges
C2_OneCutoffPerAdvance ==
  (pc \in {"loop", "done"}) =>
     /\ fstl.rangeIdx = CutoffsBefore(Len(stream)) + (IF CutoffPending THEN 1 ELSE 0)
     /\ \A j \in 1..Len(stream) :
          IsLeafOrHash(stream[j]) => stream[j].range = CutoffsBefore(j - 1)

IsStorageType(t) == t \in {"StorageStreamItem", "SHashStreamItem"}

IsHashType(t) == t \in {"AHashStreamItem", "SHashStreamItem"}

IsLeafType(t) == t \in {"AccountStreamItem", "StorageStreamItem"}

\* the incarnation bytes of a storage-level key
IncarnationOf(k) == SubSeq(k, HashLength + 1, HashLength + IncarnationLength)

\* C3: a storage leaf or storage hash is written only for a key under
\* accAddrHashWithInc, and no dispatched storage item lies under another
\* incarnation than the one recorded for its account in the store
C3_StorageUnderCurrentAccount ==
  /\ (pc = "loop" /\ fstl.itemPresent /\ IsStorageItem(fstl)) =>
        /\ Len(itemKey) >= HashLength + IncarnationLength
        /\ Take(itemKey, HashLength + IncarnationLength) = fstl.accAddrHashWithInc
  /\ Loading =>
       \A j \in 1..Len(stream) :
         IsStorageType(stream[j].type) =>
           LET k == stream[j].key
               a == Take(k, HashLength)
               d == DecodeForStorage(TheStore.C[a])
           IN (a \in DOMAIN TheStore.C /\ ~d.err) =>
                 IncarnationOf(k) = InvertedIncarnation(d.a.Incarnation)

\* a storage item is pending while the store holds storage of the same
\* account under another incarnation
C3_Witness ==
  /\ pc = "loop" /\ fstl.itemPresent /\ IsStorageItem(fstl)
  /\ \E k \in DOMAIN TheStore.C :
       /\ Len(k) > HashLength + IncarnationLength
       /\ Take(k, HashLength) = Take(itemKey, HashLength)
       /\ IncarnationOf(k) # IncarnationOf(itemKey)

\* C4: a cached hash whose prefix the retain decider retains is never
\* written as a hash item; the step that meets it moves IH by next() to its
\* children and writes no item
C4_Step ==
  /\ (~fstl.itemPresent /\ fstl'.itemPresent /\ IsHashType(fstl'.itemType)) =>
        ~Retain(fstl'.rl, keyToNibblesWithoutInc(itemKey'))
  /\ (pc = "loop" /\ ~fstl.itemPresent /\ pc' = "loop") =>
        LET kb == keyIsBefore(fstl.ihK, fstl.k)
        IN (/\ kb.isIH
            /\ InRange(kb.minKey, TheRanges[fstl.rangeIdx + 1])
            /\ Retain(fstl.rl, keyToNibblesWithoutInc(kb.minKey))) =>
              /\ ~fstl'.itemPresent
              /\ ih'.pos = CursorNext(TheStore.IH, ih).pos
              /\ fstl'.ihK = ih'.pos
              /\ c' = [c EXCEPT !.n = 0]

C4_RetainedHashNotEmitted == [][C4_Step]_vars

\* iteration has just left a retained cached hash P by one next() on IH
C4_Witness ==
  /\ pc = "loop" /\ ~fstl.itemPresent /\ ih.n = 1 /\ c.n = 0
  /\ \E P \in DOMAIN TheStore.IH :
       /\ Retain(fstl.rl, keyToNibblesWithoutInc(P))
       /\ fstl.minKeyAsNibbles = keyToNibblesWithoutInc(P)
       /\ fstl.ihK = CursorNext(TheStore.IH, [pos |-> P, n |-> 0]).pos

\* C10: the paths handed to the structural step by the walkers increase:
\* whenever a walker has a pending path, the path it wrote after it is greater
C10_PathsIncrease ==
  Loading =>
     /\ (Len(fstl.curr) > 0 /\ Len(fstl.succ) > 0) =>
           Compare(fstl.curr, fstl.succ) < 0
     /\ (Len(fstl.currStorage) > 0 /\ Len(fstl.succStorage) > 0) =>
           Compare(fstl.currStorage, fstl.succStorage) < 0

\* both walkers have been called at least twice
C10_Witness ==
  /\ pc = "loop"
  /\ Len(fstl.curr) > 0 /\ Len(fstl.succ) > 0
  /\ Len(fstl.currStorage) > 0 /\ Len(fstl.succStorage) > 0

\* cached hash P is one the loader may use: the decider does not retain it and
\* it lies in a requested range, at or below the cutoff of the range
UsableHash(P) ==
  /\ ~Retain(fstl.rl, keyToNibblesWithoutInc(P))
  /\ \E i \in 1..Len(TheRanges) :
       /\ InRange(P, TheRanges[i])
       /\ Len(keyToNibblesWithoutInc(P)) >= CutoffOf(TheRanges[i].fixedbits)

LeafPending == pc = "loop" /\ fstl.itemPresent /\ IsLeafType(fstl.itemType)

\* C5, as stated: for a cached hash P that is not retained, cursor C never
\* stands on a key under P and no leaf under P is dispatched
C5_NeverReadsUnderCachedHash ==
  (Loading /\ fstl.boltDB # 0) =>
     \A P \in DOMAIN TheStore.IH :
       ~Retain(fstl.rl, keyToNibblesWithoutInc(P)) =>
          /\ ~HasPrefix(c.pos, P)
          /\ \A j \in 1..Len(stream) :
               IsLeafType(stream[j].type) => ~HasPrefix(stream[j].key, P)

\* C5, amended: for a cached hash P that is not retained and lies in a
\* requested range at or below its cutoff, no account or storage leaf under
\* P is written or dispatched (cursor C may stand on a key under P before P
\* is chosen)
C5_NoLeafUnderCachedHash ==
  (Loading /\ fstl.boltDB # 0 /\ args.ranges # 0) =>
     \A P \in DOMAIN TheStore.IH :
       UsableHash(P) =>
          /\ LeafPending => ~HasPrefix(itemKey, P)
          /\ \A j \in 1..Len(stream) :
               IsLeafType(stream[j].type) => ~HasPrefix(stream[j].key, P)

\* a load has finished in which the hash cached at P was dispatched while the
\* main bucket holds keys under P
C5_Witness ==
  /\ pc = "done" /\ args.ranges # 0 /\ fstl.boltDB # 0
  /\ \E P \in DOMAIN TheStore.IH :
       /\ UsableHash(P)
       /\ \E k \in DOMAIN TheStore.C : HasPrefix(k, P)
       /\ \E j \in 1..Len(stream) :
            IsHashType(stream[j].type) /\ stream[j].key = P

\* the leaf and hash items dispatched while rangeIdx = i, without the index
ItemsOfRange(st, i) ==
  LET Test(it) == IsLeafOrHash(it) /\ it.range = i
      sel == SelectSeq(st, Test)
  IN [j \in 1..Len(sel) |-> [type |-> sel[j].type, key |-> sel[j].key]]

\* Reset and LoadSubTries of one range on a new loader
SingleRangeLoad(db, rl, r) == LoadSubTries(ResetW(NewW, db, rl, <<r>>))

\* C6: a load of several disjoint ranges dispatches for each range the items,
\* and returns for it the root, of a load of that range alone
C6_SameAsSingleRangeLoads ==
  (pc = "done" /\ args.ranges # 0 /\ Stores[args.db].hasKV) =>
     \A i \in 1..Len(TheRanges) :
        LET w == SingleRangeLoad(args.db, args.rl, TheRanges[i])
        IN /\ w.pc = "done"
           /\ ItemsOfRange(w.stream, 0) = ItemsOfRange(stream, i - 1)
           /\ Len(w.result.roots) = 1
           /\ Len(result.roots) >= i
           /\ result.roots[i] = w.result.roots[1]

\* C7: for a requested range that holds no key, the load returns, dispatches
\* no leaf or hash item for the range, and the entry of the range is the
\* empty root
C7_EmptyRangeEmptyRoot ==
  (Loading /\ args.ranges # 0 /\ fstl.boltDB # 0) =>
     \A i \in 1..Len(TheRanges) :
        RangeIsEmpty(TheStore, TheRanges[i]) =>
           /\ pc \notin {"hang", "panic"}
           /\ \A j \in 1..Len(stream) :
                IsLeafOrHash(stream[j]) => stream[j].range # i - 1
           /\ pc = "done" =>
                /\ Len(result.Hashes) >= i
                /\ result.Hashes[i].zero
                /\ result.roots[i] = <<>>

\* C8: the SubTries returned together with an error has no entries
C8_NoPartialResultOnError ==
  pc = "error" => result = NoSubTries

\* C9: whatever the loader did before, Reset and LoadSubTries dispatch the
\* items and return the SubTries that they do on a new loader
C9_ReuseSameAsFresh ==
  (pc \in {"done", "error", "hang", "panic"} /\ Stores[args.db].hasKV) =>
     LET w == LoadSubTries(ResetW(NewW, args.db, args.rl, TheRanges))
     IN /\ w.pc = pc
        /\ w.stream = stream
        /\ w.result = result

\* the account record of the account a storage-level key belongs to
AccountOf(k) == DecodeForStorage(TheStore.C[Take(k, HashLength)])

HasAccount(k) ==
  /\ Take(k, HashLength) \in DOMAIN TheStore.C
  /\ ~AccountOf(k).err

\* C11: no storage leaf and no storage hash is dispatched for an account
\* whose record has incarnation 0, whatever storage keys the store holds
C11_NoStorageForIncarnationZero ==
  Loading =>
     \A j \in 1..Len(stream) :
        (IsStorageType(stream[j].type) /\ HasAccount(stream[j].key)) =>
           AccountOf(stream[j].key).a.Incarnation # 0

\* the calls made on the hash builder in the current load: one list per
\* root already appended, and the list of the builder as it stands
HbLogs == fstl.subTries.roots \o <<fstl.hb>>

\* the database key whose nibbles, followed by the terminator 16, are path
KeyOfPath(path) ==
  [i \in 1..((Len(path) - 1) \div 2) |-> path[2 * i - 1] * 16 + path[2 * i]]

IsAccountStep(call) == call.op = "step" /\ call.kind = "account"

\* the account this structural step flushes has a non-empty code hash
FlushesCode(call) ==
  /\ KeyOfPath(call.curr) \in DOMAIN TheStore.C
  /\ DecodeForStorage(TheStore.C[KeyOfPath(call.curr)]).a.Code # 0

\* the hb.hash calls of log between the account step before q and q
CodeHashesBefore(log, q) ==
  {p \in 1..(q - 1) :
     /\ log[p].op = "hash"
     /\ \A r \in (p + 1)..(q - 1) : ~IsAccountStep(log[r])}

\* C12: between the structural step of one account and that of the next,
\* hb.hash is called once when the latter account has code and not at all
\* otherwise; a call not yet followed by an account step is the one for the
\* pending account, which has code
C12_CodeHashedOnceBeforeFlush ==
  Loading =>
     \A n \in 1..Len(HbLogs) :
        LET log == HbLogs[n]
        IN \A q \in 1..Len(log) :
             /\ IsAccountStep(log[q]) =>
                   Cardinality(CodeHashesBefore(log, q)) =
                      (IF FlushesCode(log[q]) THEN 1 ELSE 0)
             /\ (log[q].op = "hash"
                  /\ \A r \in (q + 1)..Len(log) : ~IsAccountStep(log[r])) =>
                   /\ n = Len(HbLogs)
                   /\ ~fstl.wasIH
                   /\ fstl.a.Code # 0
                   /\ \A r \in (q + 1)..Len(log) : log[r].op # "hash"

\* an account with code has been flushed after its code hash was pushed
C12_Witness ==
  /\ pc \in {"loop", "done"}
  /\ \E n \in 1..Len(HbLogs) : \E q \in 1..Len(HbLogs[n]) :
       /\ IsAccountStep(HbLogs[n][q])
       /\ FlushesCode(HbLogs[n][q])
       /\ CodeHashesBefore(HbLogs[n], q) # {}

\* C13: in the invocation of iteration that has just returned, cursor C was
\* moved (SeekTo or Next) at most once and cursor IH at most once
C13_OneMovePerCursor ==
  Loading => (c.n <= 1 /\ ih.n <= 1)

\* the position cursor cur has after an invocation of iteration is past the
\* one it had before (<<>> is the end; before the first invocation the
\* cursor has no position)
MovedForward(before, after) ==
  /\ after.n >= 1
  /\ \/ after.pos = <<>>
     \/ pc = "ready"
     \/ before.pos # <<>> /\ Compare(after.pos, before.pos) > 0

\* an invocation of iteration that returns nil
IterationReturns ==
  /\ pc = "ready" \/ (pc = "loop" /\ ~fstl.itemPresent)
  /\ pc' = "loop"

C14_Step ==
  IterationReturns =>
     IF fstl'.itemPresent
       THEN fstl'.itemWrites = 1
       ELSE /\ fstl'.itemWrites = 0
            /\ MovedForward(c, c') \/ MovedForward(ih, ih')

\* C14: an invocation of iteration that returns nil has either written
\* exactly one stream item and set itemPresent, or written none, left
\* itemPresent false and moved C or IH forward in key order or to the end
C14_OneItemOrAdvance == [][C14_Step]_vars

\* C15: once Reset has been given a non-empty range list and a store that
\* has no KV, it has returned an error and no load is made, whatever the
\* loader did before
C15_NoKVIsAnError ==
  (args.db # 0 /\ Len(TheRanges) > 0 /\ ~Stores[args.db].hasKV) =>
     /\ pc = "resetErr"
     /\ fstl.boltDB \in {0, args.db}

\* keys k and p agree on their first bits bits
FirstBitsMatch(k, p, bits) ==
  LET whole == bits \div 8
      rest  == bits % 8
  IN /\ Len(k) >= (bits + 7) \div 8
     /\ Take(k, whole) = Take(p, whole)
     /\ rest # 0 =>
          k[whole + 1] \div (2 ^ (8 - rest)) = p[whole + 1] \div (2 ^ (8 - rest))

\* C16: the key of every leaf or hash item dispatched while rangeIdx = i
\* matches dbPrefixes[i] on its first fixedbits[i] bits: it has at least
\* fixedbytes[i] bytes, the first fixedbytes[i] - 1 are those of the prefix
\* and the next one is that of the prefix under masks[i]
C16_ItemsMatchRangePrefix ==
  Loading =>
     \A j \in 1..Len(stream) :
        IsLeafOrHash(stream[j]) =>
           LET i == stream[j].range + 1
               k == stream[j].key
           IN /\ i <= Len(TheRanges)
              /\ FirstBitsMatch(k, TheRanges[i].dbPrefix, TheRanges[i].fixedbits)
              /\ Len(k) >= fstl.fixedbytes[i]
              /\ fstl.fixedbytes[i] > 0 =>
                   /\ Take(k, fstl.fixedbytes[i] - 1) =
                         Take(fstl.dbPrefixes[i], fstl.fixedbytes[i] - 1)
                   /\ BitAnd(k[fstl.fixedbytes[i]], fstl.masks[i]) =
                         BitAnd(fstl.dbPrefixes[i][fstl.fixedbytes[i]], fstl.masks[i])

\* an item of a range whose prefix ends inside a byte has been dispatched,
\* and its key differs from the prefix in the bits of that byte left free
C16_Witness ==
  /\ Loading
  /\ \E j \in 1..Len(stream) :
       /\ IsLeafOrHash(stream[j])
       /\ stream[j].range < Len(TheRanges)
       /\ TheRanges[stream[j].range + 1].fixedbits % 8 # 0
       /\ stream[j].key[1] # TheRanges[stream[j].range + 1].dbPrefix[1]

\* a call of finaliseRoot that returns nil
FinaliseRootReturns ==
  /\ pc = "loop" /\ fstl.itemPresent /\ fstl.itemType = "CutoffStreamItem"
  /\ pc' \in {"loop", "done"}

C17_Step ==
  FinaliseRootReturns =>
     /\ Len(fstl'.subTries.roots) = Len(fstl.subTries.roots) + 1
     /\ Len(fstl'.subTries.Hashes) = Len(fstl.subTries.Hashes) + 1
     /\ fstl'.hb = <<>>
     /\ fstl'.groups = <<>>
     /\ fstl'.curr = <<>> /\ fstl'.succ = <<>>
     /\ fstl'.currStorage = <<>> /\ fstl'.succStorage = <<>>
     /\ ~fstl'.wasIH /\ ~fstl'.wasIHStorage

\* C17: a call of finaliseRoot, whatever its cutoff, appends one entry to
\* roots and one to Hashes and leaves the hash builder reset, groups and the
\* four nibble buffers empty and both wasIH flags false
C17_FinaliseRootResets == [][C17_Step]_vars

\* C18: the key of every AHash or SHash item dispatched while rangeIdx = i
\* has, as nibbles without the incarnation, at least cutoffs[i] nibbles
C18_HashNotAboveCutoff ==
  Loading =>
     \A j \in 1..Len(stream) :
        IsHashType(stream[j].type) =>
           /\ stream[j].range < Len(fstl.cutoffs)
           /\ Len(keyToNibblesWithoutInc(stream[j].key)) >=
                 fstl.cutoffs[stream[j].range + 1]
           /\ fstl.cutoffs[stream[j].range + 1] =
                 (LET bits == TheRanges[stream[j].range + 1].fixedbits
                  IN IF bits >= 320 THEN bits \div 4 - 16 ELSE bits \div 4)

\* a load is over in which nothing was retained and the range held a cached
\* hash above its cutoff
C18_Witness ==
  /\ pc = "done"
  /\ fstl.rl = 1
  /\ \E i \in 1..Len(TheRanges) : \E P \in DOMAIN TheStore.IH :
       /\ InRange(P, TheRanges[i])
       /\ Len(keyToNibblesWithoutInc(P)) < fstl.cutoffs[i]

\* every structural step made with HashData in the logs passes the witness
\* length the IWL bucket holds for the cached hash at the path of the step
DataLenIsOfFlushedHash ==
  \A n \in 1..Len(HbLogs) : \A q \in 1..Len(HbLogs[n]) :
     (HbLogs[n][q].op = "step" /\ HbLogs[n][q].kind = "hash") =>
        \E P \in DOMAIN TheStore.IH :
           /\ keyToNibblesWithoutInc(P) = HbLogs[n][q].curr
           /\ HbLogs[n][q].DataLen = TheStore.IWL[P]

Dispatching == pc = "loop" /\ fstl.itemPresent

\* the next step flushes a pending storage hash in WalkerStorage, which
\* reads witnessLenStorage
WalkerReadsStorageLen ==
  Dispatching /\ IsStorageItem(fstl) /\ fstl.wasIHStorage /\ Len(fstl.succStorage) > 0

\* the next step flushes a pending account hash in WalkerAccount, which
\* reads witnessLenAccount
WalkerReadsAccountLen ==
  Dispatching /\ IsAccountItem(fstl) /\ fstl.wasIH /\ Len(fstl.succ) > 0

\* the next step flushes a pending storage hash in finaliseStorageRoot,
\* which reads storageWitnessLen
FinaliserReadsStorageLen ==
  /\ Dispatching /\ fstl.wasIHStorage /\ Len(fstl.succStorage) > 0
  /\ \/ IsAccountItem(fstl) /\ ~fstl.wasIH /\ Len(fstl.succ) > 0
     \/ /\ fstl.itemType = "CutoffStreamItem"
        /\ \/ fstl.streamCutoff >= 2 * HashLength
           \/ ~fstl.wasIH /\ Len(fstl.succ) > 0

\* the next step flushes a pending account hash in finaliseRoot, which reads
\* accountWitnessLen
FinaliserReadsAccountLen ==
  /\ Dispatching /\ fstl.itemType = "CutoffStreamItem"
  /\ fstl.streamCutoff < 2 * HashLength
  /\ fstl.wasIH /\ Len(fstl.succ) > 0

StorageLensAgree == fstl.witnessLenStorage = fstl.storageWitnessLen

AccountLensAgree == fstl.witnessLenAccount = fstl.accountWitnessLen

\* C19: the DataLen of every structural step made with HashData is the
\* witness length of the cached hash flushed, and wherever a walker or a
\* finaliser reads its witness-length field, the walker field and the
\* item-buffer field of that level hold the same value
C19_LensAgreeWhereRead ==
  (Loading /\ fstl.boltDB # 0) =>
     /\ DataLenIsOfFlushedHash
     /\ (WalkerReadsStorageLen \/ FinaliserReadsStorageLen) => StorageLensAgree
     /\ (WalkerReadsAccountLen \/ FinaliserReadsAccountLen) => AccountLensAgree

\* C19, amended: the DataLen of every structural step made with HashData is
\* the witness length of the cached hash flushed; the two fields of a level
\* hold the same value where a finaliser reads the item-buffer field
C19_DataLenOfFlushedHash ==
  (Loading /\ fstl.boltDB # 0) =>
     /\ DataLenIsOfFlushedHash
     /\ FinaliserReadsStorageLen => StorageLensAgree
     /\ FinaliserReadsAccountLen => AccountLensAgree

\* cached hashes were flushed by a walker and by a finaliser, at both levels
C19_Witness ==
  /\ pc = "done"
  /\ \E n \in 1..Len(result.roots) : \E q \in 1..Len(result.roots[n]) :
       /\ result.roots[n][q].op = "step" /\ result.roots[n][q].kind = "hash"
       /\ result.roots[n][q].DataLen = 12
  /\ \E n \in 1..Len(result.roots) : \E q \in 1..Len(result.roots[n]) :
       /\ result.roots[n][q].op = "step" /\ result.roots[n][q].kind = "hash"
       /\ result.roots[n][q].DataLen = 17

\* the account record under key K (the zero account when there is none)
RecordOf(K) ==
  IF K \in DOMAIN TheStore.C /\ ~DecodeForStorage(TheStore.C[K]).err
    THEN DecodeForStorage(TheStore.C[K]).a
    ELSE ZeroAccount

\* a storage item was dispatched after the account leaf of key K and before
\* any other account-level item
StorageWalkedAfter(K) ==
  \E j \in 1..(Len(stream) - 1) :
     /\ stream[j].type = "AccountStreamItem"
     /\ stream[j].key = K
     /\ IsStorageType(stream[j + 1].type)

\* the field set of the account under key K, flushed after its storage
FieldSetOf(K) ==
  (IF RecordOf(K).Balance # 0 THEN {"Balance"} ELSE {})
    \cup (IF RecordOf(K).Nonce # 0 THEN {"Nonce"} ELSE {})
    \cup (IF RecordOf(K).Code # 0 THEN {"Code"} ELSE {})
    \cup (IF StorageWalkedAfter(K) THEN {"Storage"} ELSE {})

\* C20: every account leaf is flushed with the field set of its own record,
\* the storage bit being set exactly when a storage item of the account was
\* walked after it, and then right after the step by which
\* finaliseStorageRoot(64) closed that storage
C20_FieldSetOfFlushedAccount ==
  (Loading /\ fstl.boltDB # 0) =>
     \A n \in 1..Len(HbLogs) : \A q \in 1..Len(HbLogs[n]) :
        IsAccountStep(HbLogs[n][q]) =>
           /\ HbLogs[n][q].FieldSet = FieldSetOf(KeyOfPath(HbLogs[n][q].curr))
           /\ StorageWalkedAfter(KeyOfPath(HbLogs[n][q].curr)) =>
                /\ q > 1
                /\ HbLogs[n][q - 1].op = "step"
                /\ Len(HbLogs[n][q - 1].curr) >= 2 * HashLength
                /\ HbLogs[n][q - 1].kind # "account"
                /\ Len(HbLogs[n][q - 1].succ) = 2 * HashLength

\* C21: every call of iteration returns: the "Adjust rangeIdx" loop never
\* makes a pass that leaves its variables as it found them, so that a load
\* once started never stops short of its return
C21_IterationReturns == pc # "hang"

\* C22: the key of every account or storage leaf written or dispatched is a
\* key of the main bucket, the one cursor C stood on; no leaf is made from
\* the end of the cursor
C22_LeafHasKeyOfCursor ==
  (Loading /\ fstl.boltDB # 0) =>
     /\ LeafPending => itemKey \in DOMAIN TheStore.C
     /\ \A j \in 1..Len(stream) :
          IsLeafType(stream[j].type) => stream[j].key \in DOMAIN TheStore.C

\* C23: finaliseRoot and finaliseStorageRoot never read the nibble at index
\* cutoff - 1 of a pending key that has fewer than cutoff nibbles
C23_CutoffWithinPendingKey == pc # "panic"

\* the calls made on the hash builder since the load began, in order: a list
\* of HbLogs that the next one continues (the builder was not reset in
\* between) is left out
RECURSIVE CallsFrom(_)
CallsFrom(n) ==
  IF n > Len(HbLogs) THEN <<>>
  ELSE IF n < Len(HbLogs) /\ HasPrefix(HbLogs[n + 1], HbLogs[n])
    THEN CallsFrom(n + 1)
  ELSE HbLogs[n] \o CallsFrom(n + 1)

HbCalls == CallsFrom(1)

IsAccountLevel(t) == t \in {"AccountStreamItem", "AHashStreamItem"}

\* the nibble path GenStructStep is given as curr for stream item it
PathOf(it) ==
  (IF IsAccountLevel(it.type) THEN keyToNibbles(it.key)
   ELSE keyToNibblesWithoutInc(it.key))
    \o (IF IsLeafType(it.type) THEN <<16>> ELSE <<>>)

\* the kind of data GenStructStep is given for stream item it
KindOf(it) ==
  IF IsHashType(it.type) THEN "hash"
  ELSE IF it.type = "AccountStreamItem" THEN "account" ELSE "leaf"

\* the calls of GenStructStep that flush stream item it
FlushesOf(it) ==
  {q \in 1..Len(HbCalls) :
     /\ HbCalls[q].op = "step"
     /\ HbCalls[q].curr = PathOf(it)
     /\ HbCalls[q].kind = KindOf(it)}

\* C24: when the load returns, every leaf or hash item dispatched has been
\* flushed by exactly one GenStructStep call, with its path as curr and the
\* data of its kind, the items of one level in the order of their dispatch,
\* and every GenStructStep call flushes a dispatched item
C24_EveryItemFlushedOnce ==
  pc = "done" =>
     /\ \A j \in 1..Len(stream) :
          IsLeafOrHash(stream[j]) => Cardinality(FlushesOf(stream[j])) = 1
     /\ \A i, j \in 1..Len(stream) :
          (/\ i < j
           /\ IsLeafOrHash(stream[i]) /\ IsLeafOrHash(stream[j])
           /\ IsAccountLevel(stream[i].type) = IsAccountLevel(stream[j].type)) =>
             \A p \in FlushesOf(stream[i]) : \A q \in FlushesOf(stream[j]) : p < q
     /\ \A q \in 1..Len(HbCalls) :
          HbCalls[q].op = "step" =>
             \E j \in 1..Len(stream) :
                IsLeafOrHash(stream[j]) /\ q \in FlushesOf(stream[j])

\* the PlainStateBucket of db without the key k
WithoutKey(db, k) ==
  [db EXCEPT !.PlainStateBucket = [x \in DOMAIN @ \ {k} |-> @[x]]]

\* the PlainStateBucket of db with k set to v
WithKey(db, k, v) ==
  [db EXCEPT !.PlainStateBucket =
     [x \in DOMAIN @ \cup {k} |-> IF x = k THEN v ELSE @[x]]]

ClaimedOps ==
  {"UpdateAccountData", "UpdateAccountCode", "DeleteAccount", "WriteAccountStorage"}

\* the composite key of the WriteAccountStorage recorded in call
StorageKeyOf(call) ==
  PlainGenerateCompositeStorageKey(call.address, call.incarnation, call.key)

C25_Step ==
  (writes' = writes + 1 /\ lastCall'.op \in ClaimedOps) =>
     /\ lastCall'.events # <<>>
     /\ lastCall'.events[1].target = "csw"
     /\ lastCall'.events[1].call = lastCall'.op
     /\ \A i \in 2..Len(lastCall'.events) : lastCall'.events[i].target = "db"
     /\ lastCall'.events[1].failed =>
          (lastCall'.err = "cswErr" /\ stateDb' = stateDb /\ Len(lastCall'.events) = 1)
     /\ (lastCall'.op = "WriteAccountStorage" /\ lastCall'.err = "nil") =>
          IF lastCall'.original = lastCall'.value
            THEN stateDb' = stateDb
          ELSE IF lastCall'.value = 0
            THEN stateDb' = WithoutKey(stateDb, StorageKeyOf(lastCall'))
          ELSE stateDb' = WithKey(stateDb, StorageKeyOf(lastCall'),
                                  Uint256Bytes(lastCall'.value))

\* C25: every step of UpdateAccountData, UpdateAccountCode, DeleteAccount and
\* WriteAccountStorage calls the change-set writer first and, when that call
\* returns an error, returns the error and leaves the state database as it was;
\* a WriteAccountStorage that returns no error leaves the database as it was
\* when original equals value, removes the composite key from the state bucket
\* when the new value is zero, and otherwise sets the composite key to the
\* bytes of the value.
C25_ChangeSetFirstAndStorageWrite == [][C25_Step]_vars

\* a WriteAccountStorage of a zero value has removed a slot that was stored,
\* after an earlier operation on the same writer
C25_Witness ==
  /\ writes = 2
  /\ lastCall.op = "WriteAccountStorage"
  /\ lastCall.err = "nil"
  /\ lastCall.original # lastCall.value
  /\ lastCall.value = 0
  /\ Len(lastCall.events) = 2
  /\ lastCall.events[2].call = "Delete"
  /\ StorageKeyOf(lastCall) \in DOMAIN NewStateDb.PlainStateBucket
  /\ StorageKeyOf(lastCall) \notin DOMAIN stateDb.PlainStateBucket

====
